---- MODULE Spec2Model ----
(***************************************************************************)
(* Model of the power telemetry sampler of llm_joulemeter.py:              *)
(* IntelPowerMonitor (reader thread over the powermetrics subprocess),     *)
(* calibrate_baseline and the driver run_experiment.                       *)
(*                                                                         *)
(* Characters are one-character strings.  The 40-character literal         *)
(* "Intel energy model derived package power" of the power pattern is      *)
(* written as the single symbol "I"; every other symbol is itself.         *)
(* Wall-clock timestamps are integers counting ticks of a tenth of a       *)
(* second.  Watt values are exact rationals [n |-> numerator,              *)
(* d |-> denominator]; the rounding of binary floats is left out.          *)
(*                                                                         *)
(* Spec          the reader thread, the subprocess and the driver together *)
(* SpecReader    the reader thread alone over every short output stream    *)
(* SpecMetrics   one window drain and its metrics over every short queue   *)
(* SpecCalibrate the calibration drain over every short queue              *)
(* SpecSimple    the file-based variant, llm_joulemeter_simple.py          *)
(***************************************************************************)
EXTENDS Integers, Sequences, FiniteSets, TLC

VARIABLES
    \* the sampler subprocess (sudo powermetrics)
    pipe,           \* characters it has written to stdout, not yet read
    closed,         \* it has closed its stdout
    hung,           \* it will never write nor close again
    written,        \* number of lines it has written
    sigterm,        \* the processes a termination signal was sent to
    \* IntelPowerMonitor
    readerPc,       \* position of the reader thread inside run()
    buffer,         \* run(): local `buffer`
    queue,          \* self.data_queue
    stop_event,     \* self.stop_event
    baseline_watts, \* self.baseline_watts
    \* the driver: run_experiment and the calibrate_baseline it calls
    driverPc,       \* position of the driver
    task,           \* index into PROMPTS of the current task
    since,          \* clock value at which the current time.sleep began
    start_time,     \* run_experiment: local `start_time`
    end_time,       \* run_experiment: local `end_time`
    readings,       \* calibrate_baseline: local `readings`
    power_samples,  \* run_experiment: local `power_samples`
    results,        \* run_experiment: local `results`
    now,            \* the wall clock read by time.time()
    \* the file-based variant, llm_joulemeter_simple.py
    simple,         \* the result dict of one run, <<>> before the run
    fileRun,        \* the run: position, clock, locals, power file, signals
    stderrPipe,     \* the stderr pipe of the subprocess: bytes held, and
                    \* whether the subprocess is blocked writing to it
    \* the diagnostic script, debug_power.py
    debug,          \* position, captured stdout, patterns tried, matches
    \* history, written but never read by the program
    pushed,         \* every sample ever put on the queue, in put order
    consumed,       \* every character read(1) has returned
    preCal,         \* ids of the samples put before calibrate_baseline returned
    calGot,         \* ids got by the calibration drain, in get order
    winGot,         \* per task: ids got by its window drain, in get order
    used,           \* per task: ids whose value entered power_samples
    cleared,        \* ids removed by a queue.clear()
    window,         \* per task: the [start, end] of its inference call
    outcome,        \* per task: "none", "error", "nodata" or "row"
    metrics,        \* per task with a row: the values computed for the row
    calibrations,   \* number of assignments to baseline_watts
    midDrain,       \* a sample was put since the current drain loop began
    pushedAtStop    \* the number of samples put before stop() was called

procVars == <<pipe, closed, hung, written, sigterm>>

readerVars == <<readerPc, buffer, consumed>>

driverVars == <<driverPc, task, since, start_time, end_time, readings,
                power_samples, results, baseline_watts>>

histVars == <<preCal, calGot, winGot, used, cleared, window, outcome,
              metrics, calibrations, midDrain>>

vars == <<procVars, readerVars, driverVars, histVars, queue, pushed,
          stop_event, now, simple, fileRun, debug, stderrPipe, pushedAtStop>>

----------------------------------------------------------------------------
(* Exact rationals                                                         *)

Rat(n, d) == [n |-> n, d |-> d]

REq(a, b) == a.n * b.d = b.n * a.d

RLe(a, b) == a.n * b.d <= b.n * a.d

RAdd(a, b) == Rat(a.n * b.d + b.n * a.d, a.d * b.d)

RSub(a, b) == Rat(a.n * b.d - b.n * a.d, a.d * b.d)

RMul(a, b) == Rat(a.n * b.n, a.d * b.d)

----------------------------------------------------------------------------
(* The power pattern of run(): the literal, a lazy run of any characters   *)
(* but newline, a colon, one or more whitespace, the captured group (one   *)
(* or more digits, an optional dot, any digits), any whitespace, "W".      *)

Digits == {"0", "1", "2", "3", "4", "5", "6", "7", "8", "9"}

Spaces == {" ", "\n"}

DigitVal(c) ==
    CASE c = "0" -> 0 [] c = "1" -> 1 [] c = "2" -> 2 [] c = "3" -> 3
      [] c = "4" -> 4 [] c = "5" -> 5 [] c = "6" -> 6 [] c = "7" -> 7
      [] c = "8" -> 8 [] c = "9" -> 9

\* Last index of the longest run of characters of the class cls that
\* starts at index i of s; i - 1 when the run is empty (greedy quantifier).
RunEnd(s, i, cls) ==
    LET stops == {k \in i .. Len(s) : s[k] \notin cls}
    IN  IF stops = {} THEN Len(s)
        ELSE (CHOOSE k \in stops : \A m \in stops : k <= m) - 1

\* The part of the pattern after the colon, anchored at index j.  The
\* character classes are pairwise disjoint, so the greedy match is the only
\* one backtracking can find.  from..to is the captured group.
MatchTail(s, j) ==
    LET a == RunEnd(s, j, Spaces)
        b == RunEnd(s, a + 1, Digits)
        c == IF b + 1 <= Len(s) /\ s[b + 1] = "." THEN b + 1 ELSE b
        d == RunEnd(s, c + 1, Digits)
        e == RunEnd(s, d + 1, Spaces)
    IN  IF a >= j /\ b >= a + 1 /\ e + 1 <= Len(s) /\ s[e + 1] = "W"
        THEN [ok |-> TRUE, from |-> a + 1, to |-> d]
        ELSE [ok |-> FALSE, from |-> 0, to |-> 0]

\* The colons the lazy run can stop at when the literal is at index i:
\* no newline between the literal and the colon, and the rest matches.
ColonsFor(s, i) ==
    {j \in i + 1 .. Len(s) :
        /\ s[j] = ":"
        /\ \A k \in i + 1 .. j - 1 : s[k] # "\n"
        /\ MatchTail(s, j + 1).ok}

\* power_pattern.search(s): the leftmost match, its lazy run as short as
\* possible; group is the text of group(1).
Search(s) ==
    LET starts == {i \in 1 .. Len(s) : s[i] = "I" /\ ColonsFor(s, i) # {}}
    IN  IF starts = {} THEN [ok |-> FALSE, group |-> <<>>]
        ELSE LET i == CHOOSE x \in starts : \A y \in starts : x <= y
                 j == CHOOSE x \in ColonsFor(s, i) :
                          \A y \in ColonsFor(s, i) : x <= y
                 m == MatchTail(s, j + 1)
             IN  [ok |-> TRUE, group |-> SubSeq(s, m.from, m.to)]

RECURSIVE ParseFloatFrom(_, _, _, _)
\* float(g) for a captured group g: the decimal value, read left to
\* right; acc is the digits so far, den the power of ten of the fraction.
ParseFloatFrom(g, acc, den, frac) ==
    IF g = <<>> THEN Rat(acc, den)
    ELSE IF Head(g) = "." THEN ParseFloatFrom(Tail(g), acc, den, TRUE)
    ELSE ParseFloatFrom(Tail(g), acc * 10 + DigitVal(Head(g)),
                        IF frac THEN den * 10 ELSE den, frac)

ParseFloat(g) == ParseFloatFrom(g, 0, 1, FALSE)

----------------------------------------------------------------------------
(* Bounds                                                                  *)

\* lines in a stream handed to the reader alone
MaxStreamLines == 3

\* lines of output the subprocess writes in a whole experiment
MaxLines == 2

\* tasks in PROMPTS
NumTasks == 2

----------------------------------------------------------------------------
(* Program constants                                                       *)

\* run(): `if len(buffer) > 1000`
BufferCap == 1000

\* run(): `buffer = buffer[-500:]`
BufferKeep == 500

\* the process the monitor spawns, and the command running under it
SpawnedProcess == "sudo"

ProcessGroup == {"sudo", "powermetrics"}

Tasks == 1 .. NumTasks

\* The file-based variant before run_with_power_monitoring is called
FileRunIdle ==
    fileRun = [pc |-> "init", clock |-> 0, baseline_power |-> Rat(0, 1),
               start_time |-> 0, end_time |-> 0, power_file |-> <<>>,
               killpg |-> 0]

\* Line 55, stderr=subprocess.PIPE: the pipe is empty when it is created
StderrEmpty == stderrPipe = [held |-> 0, blocked |-> FALSE]

\* debug_power.py before debug_powermetrics is called
DebugIdle ==
    debug = [pc |-> "idle", stdout |-> <<>>, tried |-> <<>>,
             used |-> "none", matches |-> <<>>]

----------------------------------------------------------------------------
(* The reader thread: IntelPowerMonitor.run                                *)

\* buffer[-500:]
LastChars(s, k) == IF Len(s) <= k THEN s ELSE SubSeq(s, Len(s) - k + 1, Len(s))

\* Variant of Put: the sample is put twice
PutTwice(q, t, watts, id) ==
    q \o << [t |-> t, watts |-> watts, id |-> id],
            [t |-> t, watts |-> watts, id |-> id] >>

\* Variant of Put: the sample is put at the head of the queue
PutFront(q, t, watts, id) == <<[t |-> t, watts |-> watts, id |-> id]>> \o q

\* data_queue.put((time.time(), watts)); id is the history number of the put
Put(q, t, watts, id) == Append(q, [t |-> t, watts |-> watts, id |-> id])

\* Variant of LoopTop: the loop never looks at the stop event
LoopTopDeaf(stop) == "read"

\* Line 62: while not self.stop_event.is_set(), evaluated at the top of
\* the loop: leave the loop, or enter the blocking read(1)
LoopTop(stop) == IF stop THEN "terminate" ELSE "read"

\* The driver is inside one of its two drain loops, lines 97-98 and 161-164
InDrainLoop == driverPc \in {"cal_check", "cal_get", "drain_check", "drain_get"}

\* Lines 54-62: subprocess.Popen(cmd, stdout=PIPE, stderr=PIPE, ...), then
\* the first evaluation of the loop condition
ReaderSpawn ==
    /\ readerPc = "spawn"
    /\ readerPc' = LoopTop(stop_event)
    /\ UNCHANGED <<procVars, buffer, consumed, driverVars, histVars, queue,
                   pushed, stop_event, now, simple, fileRun, debug,
                   stderrPipe, pushedAtStop>>

\* Lines 54-56: subprocess.Popen raises (the command cannot be executed);
\* the exception leaves run() and ends the thread, in which it was raised
ReaderSpawnFail ==
    /\ readerPc = "spawn"
    /\ readerPc' = "failed"
    /\ UNCHANGED <<procVars, buffer, consumed, driverVars, histVars, queue,
                   pushed, stop_event, now, simple, fileRun, debug,
                   stderrPipe, pushedAtStop>>

\* Variant of Truncate: the cut is made after every character
TruncateAlways(buf, char) ==
    IF Len(buf) > BufferCap THEN LastChars(buf, BufferKeep) ELSE buf

\* Lines 79-80, reached inside the branch of line 71 only: after a newline,
\* a buffer longer than the cap is cut to its last characters
Truncate(buf, char) ==
    IF char = "\n" /\ Len(buf) > BufferCap
    THEN LastChars(buf, BufferKeep) ELSE buf

\* A byte of the output that the text decoder of process.stdout rejects,
\* written as the symbol "?"
Undecodable == "?"

\* Lines 62-80, read(1) returned a character: one pass of the loop body,
\* up to the next evaluation of the loop condition.
ReaderReadChar ==
    /\ readerPc = "read"
    /\ pipe # <<>>
    /\ Head(pipe) # Undecodable
    /\ LET char == Head(pipe)
           buf == Append(buffer, char)
           match == Search(buf)
           id == Len(pushed) + 1
       IN  /\ pipe' = Tail(pipe)
           /\ consumed' = Append(consumed, char)
           /\ IF char = "\n" /\ match.ok
              THEN /\ queue' = Put(queue, now, ParseFloat(match.group), id)
                   /\ pushed' = Append(pushed, [t |-> now,
                                    watts |-> ParseFloat(match.group), id |-> id])
                   /\ preCal' = IF driverPc \in {"init", "cal_sleep", "cal_check",
                                     "cal_get", "cal_clear", "cal_return"}
                                THEN preCal \cup {id} ELSE preCal
                   /\ midDrain' = (midDrain \/ InDrainLoop)
              ELSE UNCHANGED <<queue, pushed, preCal, midDrain>>
           /\ buffer' = Truncate(buf, char)
    /\ readerPc' = LoopTop(stop_event)
    /\ UNCHANGED <<closed, hung, written, sigterm, driverVars, calGot, winGot,
                   used, cleared, window, outcome, metrics, calibrations,
                   stop_event, now, simple, fileRun, debug, stderrPipe,
                   pushedAtStop>>

\* Variant of AfterError: the loop goes on with the next read
AfterErrorContinue(stop) == LoopTop(stop)

\* Lines 82-84: print the error; break
AfterError(stop) == "terminate"

\* Lines 64 and 82-84: read(1) raised an exception, here the decoding
\* error of a byte that is no text; the byte is used up
ReaderReadError ==
    /\ readerPc = "read"
    /\ pipe # <<>>
    /\ Head(pipe) = Undecodable
    /\ pipe' = Tail(pipe)
    /\ consumed' = Append(consumed, Head(pipe))
    /\ readerPc' = AfterError(stop_event)
    /\ UNCHANGED <<closed, hung, written, sigterm, buffer, driverVars,
                   histVars, queue, pushed, stop_event, now, simple, fileRun,
                   debug, stderrPipe, pushedAtStop>>

\* Lines 64-66, read(1) returned "" at end of stream: break
ReaderReadEOF ==
    /\ readerPc = "read"
    /\ pipe = <<>>
    /\ closed
    /\ readerPc' = "terminate"
    /\ UNCHANGED <<procVars, buffer, consumed, driverVars, histVars, queue,
                   pushed, stop_event, now, simple, fileRun, debug,
                   stderrPipe, pushedAtStop>>

\* Variant of Terminate: run() returns without signalling the subprocess
TerminateNothing(sent) == sent

\* process.terminate(): SIGTERM to the pid of the spawned process
Terminate(sent) == sent \cup {SpawnedProcess}

\* Line 86: process.terminate(), then run() returns
ReaderTerminate ==
    /\ readerPc = "terminate"
    /\ sigterm' = Terminate(sigterm)
    /\ readerPc' = "done"
    /\ UNCHANGED <<pipe, closed, hung, written, buffer, consumed, driverVars,
                   histVars, queue, pushed, stop_event, now, simple, fileRun,
                   debug, stderrPipe, pushedAtStop>>

----------------------------------------------------------------------------
(* The sampler subprocess, seen through its stdout                         *)

\* The lines powermetrics writes: a package power line and an empty line
OutputLines ==
    { <<"I", ":", " ", "5", "W", "\n">>,
      <<"\n">> }

Spawned == readerPc \in {"read", "terminate", "done"}

Alive ==
    /\ Spawned /\ ~closed /\ ~hung /\ SpawnedProcess \notin sigterm
    /\ ~stderrPipe.blocked

\* The subprocess writes its next line of output, once the reader has read
\* the line before
ProcWrite ==
    /\ Alive
    /\ pipe = <<>>
    /\ written < MaxLines
    /\ \E line \in OutputLines : pipe' = line
    /\ written' = written + 1
    /\ UNCHANGED <<closed, hung, sigterm, readerVars, driverVars, histVars,
                   queue, pushed, stop_event, now, simple, fileRun, debug,
                   stderrPipe, pushedAtStop>>

\* The subprocess exits by itself and its stdout reaches end of stream
ProcClose ==
    /\ Alive
    /\ pipe = <<>>
    /\ closed' = TRUE
    /\ UNCHANGED <<pipe, hung, written, sigterm, readerVars, driverVars,
                   histVars, queue, pushed, stop_event, now, simple, fileRun,
                   debug, stderrPipe, pushedAtStop>>

\* The subprocess hangs: from now on it neither writes nor closes
ProcHang ==
    /\ Alive
    /\ pipe = <<>>
    /\ hung' = TRUE
    /\ UNCHANGED <<pipe, closed, written, sigterm, readerVars, driverVars,
                   histVars, queue, pushed, stop_event, now, simple, fileRun,
                   debug, stderrPipe, pushedAtStop>>

\* The number of chunks the operating system holds in a pipe that nobody
\* reads, before a write to the pipe blocks
PipeCapacity == 3

\* The subprocess writes a chunk to its stderr, the pipe of line 55: the
\* write returns while the pipe has room and blocks once the pipe is full
ProcWriteErr ==
    /\ Alive
    /\ stderrPipe' = IF stderrPipe.held < PipeCapacity
                     THEN [stderrPipe EXCEPT !.held = @ + 1]
                     ELSE [stderrPipe EXCEPT !.blocked = TRUE]
    /\ UNCHANGED <<procVars, readerVars, driverVars, histVars, queue, pushed,
                   stop_event, now, simple, fileRun, debug, pushedAtStop>>

\* The monitor right after Popen returned, with a subprocess that writes
\* to both of its pipes
InitPipes ==
    /\ pipe = <<>> /\ closed = FALSE /\ hung = FALSE /\ written = 0
    /\ sigterm = {}
    /\ readerPc = "read" /\ buffer = <<>> /\ queue = <<>>
    /\ stop_event = FALSE /\ now = 0 /\ simple = <<>>
    /\ FileRunIdle
    /\ DebugIdle
    /\ StderrEmpty
    /\ pushedAtStop = 0
    /\ driverPc = "init" /\ task = 1 /\ since = 0 /\ start_time = 0
    /\ end_time = 0 /\ readings = <<>> /\ power_samples = <<>>
    /\ results = <<>> /\ baseline_watts = Rat(0, 1)
    /\ pushed = <<>> /\ consumed = <<>> /\ preCal = {} /\ calGot = <<>>
    /\ winGot = [k \in Tasks |-> <<>>] /\ used = [k \in Tasks |-> {}]
    /\ cleared = {} /\ window = [k \in Tasks |-> <<0, 0>>]
    /\ outcome = [k \in Tasks |-> "none"]
    /\ metrics = [k \in Tasks |-> <<>>]
    /\ calibrations = 0 /\ midDrain = FALSE

NextPipes ==
    \/ ProcWrite
    \/ ProcWriteErr
    \/ ProcClose
    \/ ReaderReadChar
    \/ ReaderReadEOF
    \/ ReaderTerminate

SpecPipes == InitPipes /\ [][NextPipes]_vars

----------------------------------------------------------------------------
(* The metrics of one window: run_experiment lines 163-175                 *)

\* Variant of InWindow: both ends of the window excluded
InWindowExclusive(t, start, end) == start < t /\ t < end

\* Line 163: start_time <= t <= end_time
InWindow(t, start, end) == start <= t /\ t <= end

RECURSIVE RSum(_)
RSum(ws) == IF ws = <<>> THEN Rat(0, 1) ELSE RAdd(Head(ws), RSum(Tail(ws)))

\* sum(xs) / len(xs)
Mean(ws) == LET total == RSum(ws) IN Rat(total.n, total.d * Len(ws))

\* Python max(a, b): b when b > a, else a
PyMax(a, b) == IF RLe(b, a) THEN a ELSE b

\* Line 146: elapsed = end_time - start_time, in seconds
Elapsed(start, end) == Rat(end - start, 10)

\* Variant of AvgPowerRaw: the sum, not divided by the count
AvgPowerRawSum(samples) == RSum(samples)

\* Line 171
AvgPowerRaw(samples) == Mean(samples)

\* Variant of AvgPowerNet: the floor left out
AvgPowerNetNoFloor(raw, baseline) == RSub(raw, baseline)

\* Line 172: max(0.1, avg_power_raw - monitor.baseline_watts)
AvgPowerNet(raw, baseline) == PyMax(Rat(1, 10), RSub(raw, baseline))

\* Line 175
TotalEnergy(net, elapsed) == RMul(net, elapsed)

----------------------------------------------------------------------------
(* The driver: calibrate_baseline                                          *)

QueueIds(q) == {q[i].id : i \in 1 .. Len(q)}

\* Variant of Clear: the queue is left as it is
ClearNothing(q) == q

\* data_queue.queue.clear() under data_queue.mutex
Clear(q) == <<>>

\* Variant of Empty: the loop condition never sees the queue empty
EmptyNever(q) == FALSE

\* Lines 97 and 161: data_queue.empty()
Empty(q) == q = <<>>

\* Variant of Get: the item is read but stays at the head of the queue
GetKeep(q) == [item |-> Head(q), rest |-> q]

\* Variant of Get: the item after the one returned is removed with it
GetSkip(q) ==
    [item |-> Head(q), rest |-> IF Len(q) > 1 THEN Tail(Tail(q)) ELSE <<>>]

\* data_queue.get() on a non-empty queue: the item and the queue left
Get(q) == [item |-> Head(q), rest |-> Tail(q)]

\* Variant of CanStart: a thread object can be started again
CanStartAgain(pc) == TRUE

\* Variant of CanStart: a thread object whose run() is over starts again
CanStartWhenOver(pc) == pc \in {"idle", "done", "failed"}

\* Thread.start() starts a thread object that was never started, and
\* raises RuntimeError for one that was
CanStart(pc) == pc = "idle"

\* Lines 93-94: self.start(); time.sleep(duration_sec) begins
CalStart ==
    /\ driverPc = "init"
    /\ CanStart(readerPc)
    /\ readerPc' = "spawn"
    /\ driverPc' = "cal_sleep"
    /\ since' = now
    /\ UNCHANGED <<procVars, buffer, consumed, task, start_time, end_time,
                   readings, power_samples, results, baseline_watts, histVars,
                   queue, pushed, stop_event, now, simple, fileRun, debug,
                   stderrPipe, pushedAtStop>>

\* Lines 94-96: the sleep is over; readings = []
CalWake ==
    /\ driverPc = "cal_sleep"
    /\ now > since
    /\ readings' = <<>>
    /\ driverPc' = "cal_check"
    /\ UNCHANGED <<procVars, readerVars, task, since, start_time, end_time,
                   power_samples, results, baseline_watts, histVars, queue,
                   pushed, stop_event, now, simple, fileRun, debug,
                   stderrPipe, pushedAtStop>>

\* Line 97: while not self.data_queue.empty(), the queue is not empty
CalDrainCheck ==
    /\ driverPc = "cal_check"
    /\ ~Empty(queue)
    /\ driverPc' = "cal_get"
    /\ UNCHANGED <<procVars, readerVars, task, since, start_time, end_time,
                   readings, power_samples, results, baseline_watts, histVars,
                   queue, pushed, stop_event, now, simple, fileRun, debug,
                   stderrPipe, pushedAtStop>>

\* Line 98: readings.append(self.data_queue.get()[1]); get() blocks while
\* the queue is empty
CalDrainGet ==
    /\ driverPc = "cal_get"
    /\ queue # <<>>
    /\ readings' = Append(readings, Get(queue).item.watts)
    /\ calGot' = Append(calGot, Get(queue).item.id)
    /\ queue' = Get(queue).rest
    /\ driverPc' = "cal_check"
    /\ UNCHANGED <<procVars, readerVars, task, since, start_time, end_time,
                   power_samples, results, baseline_watts, preCal, winGot,
                   used, cleared, window, outcome, metrics, calibrations,
                   midDrain, pushed, stop_event, now, simple, fileRun, debug,
                   stderrPipe, pushedAtStop>>

\* Variant of Baseline: without readings the initial 0.0 is kept
BaselineNoDefault(rs) == IF rs # <<>> THEN Mean(rs) ELSE Rat(0, 1)

\* Lines 100-105: the mean of the readings, or the 3.0 W default
Baseline(rs) == IF rs # <<>> THEN Mean(rs) ELSE Rat(3, 1)

\* Lines 97-105: the queue is empty, the loop ends and the baseline is set
CalSetBaseline ==
    /\ driverPc = "cal_check"
    /\ Empty(queue)
    /\ baseline_watts' = Baseline(readings)
    /\ calibrations' = calibrations + 1
    /\ driverPc' = "cal_clear"
    /\ midDrain' = FALSE
    /\ UNCHANGED <<procVars, readerVars, task, since, start_time, end_time,
                   readings, power_samples, results, preCal, calGot, winGot,
                   used, cleared, window, outcome, metrics, queue, pushed,
                   stop_event, now, simple, fileRun, debug, stderrPipe,
                   pushedAtStop>>

\* Lines 108-109: clear the queue for the actual run
CalClear ==
    /\ driverPc = "cal_clear"
    /\ cleared' = cleared \cup (QueueIds(queue) \ QueueIds(Clear(queue)))
    /\ queue' = Clear(queue)
    /\ driverPc' = "cal_return"
    /\ UNCHANGED <<procVars, readerVars, task, since, start_time, end_time,
                   readings, power_samples, results, baseline_watts, preCal,
                   calGot, winGot, used, window, outcome, metrics,
                   calibrations, midDrain, pushed, stop_event, now, simple,
                   fileRun, debug, stderrPipe, pushedAtStop>>

\* calibrate_baseline returns to run_experiment, lines 115-121
CalReturn ==
    /\ driverPc = "cal_return"
    /\ driverPc' = "task_clear"
    /\ UNCHANGED <<procVars, readerVars, task, since, start_time, end_time,
                   readings, power_samples, results, baseline_watts, histVars,
                   queue, pushed, stop_event, now, simple, fileRun, debug,
                   stderrPipe, pushedAtStop>>

----------------------------------------------------------------------------
(* The driver: run_experiment                                              *)

\* `continue`, or the end of the loop body: the next task, or line 206
AfterTask == IF task < NumTasks THEN "task_clear" ELSE "stop"

NextTaskIndex == IF task < NumTasks THEN task + 1 ELSE task

\* Lines 124-128: clear previous power data; time.sleep(1) begins
TaskClear ==
    /\ driverPc = "task_clear"
    /\ cleared' = cleared \cup (QueueIds(queue) \ QueueIds(Clear(queue)))
    /\ queue' = Clear(queue)
    /\ since' = now
    /\ driverPc' = "settle"
    /\ UNCHANGED <<procVars, readerVars, task, start_time, end_time, readings,
                   power_samples, results, baseline_watts, preCal, calGot,
                   winGot, used, window, outcome, metrics, calibrations,
                   midDrain, pushed, stop_event, now, simple, fileRun, debug,
                   stderrPipe, pushedAtStop>>

\* Lines 128-135: the sleep is over; start_time = time.time(); the blocking
\* request is sent
TaskStart ==
    /\ driverPc = "settle"
    /\ now > since
    /\ start_time' = now
    /\ since' = now
    /\ driverPc' = "infer"
    /\ UNCHANGED <<procVars, readerVars, task, end_time, readings,
                   power_samples, results, baseline_watts, histVars, queue,
                   pushed, stop_event, now, simple, fileRun, debug,
                   stderrPipe, pushedAtStop>>

\* Lines 135-159: the response arrived; end_time = time.time();
\* time.sleep(0.5) begins
InferReturn ==
    /\ driverPc = "infer"
    /\ now > since
    /\ end_time' = now
    /\ window' = [window EXCEPT ![task] = <<start_time, now>>]
    /\ since' = now
    /\ driverPc' = "final_sleep"
    /\ UNCHANGED <<procVars, readerVars, task, start_time, readings,
                   power_samples, results, baseline_watts, preCal, calGot,
                   winGot, used, cleared, outcome, metrics, calibrations,
                   midDrain, queue, pushed, stop_event, now, simple, fileRun,
                   debug, stderrPipe, pushedAtStop>>

\* Lines 198-200: the request or the response decoding raised an Exception
InferFail ==
    /\ driverPc = "infer"
    /\ now > since
    /\ outcome' = [outcome EXCEPT ![task] = "error"]
    /\ driverPc' = AfterTask
    /\ task' = NextTaskIndex
    /\ UNCHANGED <<procVars, readerVars, since, start_time, end_time,
                   readings, power_samples, results, baseline_watts, preCal,
                   calGot, winGot, used, cleared, window, metrics,
                   calibrations, midDrain, queue, pushed, stop_event, now,
                   simple, fileRun, debug, stderrPipe, pushedAtStop>>

\* Lines 159-160: the sleep is over; power_samples = []
FinalWake ==
    /\ driverPc = "final_sleep"
    /\ now > since
    /\ power_samples' = <<>>
    /\ driverPc' = "drain_check"
    /\ UNCHANGED <<procVars, readerVars, task, since, start_time, end_time,
                   readings, results, baseline_watts, histVars, queue, pushed,
                   stop_event, now, simple, fileRun, debug, stderrPipe,
                   pushedAtStop>>

\* Line 161: while not monitor.data_queue.empty(), the queue is not empty
DrainCheck ==
    /\ driverPc = "drain_check"
    /\ ~Empty(queue)
    /\ driverPc' = "drain_get"
    /\ UNCHANGED <<procVars, readerVars, task, since, start_time, end_time,
                   readings, power_samples, results, baseline_watts, histVars,
                   queue, pushed, stop_event, now, simple, fileRun, debug,
                   stderrPipe, pushedAtStop>>

\* Lines 162-164: t, watts = get(); keep watts when t is in the window
DrainGet ==
    /\ driverPc = "drain_get"
    /\ queue # <<>>
    /\ LET item == Get(queue).item
       IN  /\ winGot' = [winGot EXCEPT ![task] = Append(@, item.id)]
           /\ IF InWindow(item.t, start_time, end_time)
              THEN /\ power_samples' = Append(power_samples, item.watts)
                   /\ used' = [used EXCEPT ![task] = @ \cup {item.id}]
              ELSE UNCHANGED <<power_samples, used>>
    /\ queue' = Get(queue).rest
    /\ driverPc' = "drain_check"
    /\ UNCHANGED <<procVars, readerVars, task, since, start_time, end_time,
                   readings, results, baseline_watts, preCal, calGot, cleared,
                   window, outcome, metrics, calibrations, midDrain, pushed,
                   stop_event, now, simple, fileRun, debug, stderrPipe,
                   pushedAtStop>>

\* Lines 161-168: the queue is empty, the loop ends; no power samples
\* captured; continue
NoSamples ==
    /\ driverPc = "drain_check"
    /\ Empty(queue)
    /\ power_samples = <<>>
    /\ outcome' = [outcome EXCEPT ![task] = "nodata"]
    /\ driverPc' = AfterTask
    /\ task' = NextTaskIndex
    /\ midDrain' = FALSE
    /\ UNCHANGED <<procVars, readerVars, since, start_time, end_time,
                   readings, power_samples, results, baseline_watts, preCal,
                   calGot, winGot, used, cleared, window, metrics,
                   calibrations, queue, pushed, stop_event, now, simple,
                   fileRun, debug, stderrPipe, pushedAtStop>>

\* Lines 161-203: the queue is empty, the loop ends; the metrics, the
\* result row; time.sleep(3) begins
Compute ==
    /\ driverPc = "drain_check"
    /\ Empty(queue)
    /\ power_samples # <<>>
    /\ LET avg_power_raw == AvgPowerRaw(power_samples)
           avg_power_net == AvgPowerNet(avg_power_raw, baseline_watts)
           elapsed == Elapsed(start_time, end_time)
           total_energy_joules == TotalEnergy(avg_power_net, elapsed)
       IN  metrics' = [metrics EXCEPT ![task] =
                          [avg_power_raw |-> avg_power_raw,
                           avg_power_net |-> avg_power_net,
                           elapsed |-> elapsed,
                           total_energy_joules |-> total_energy_joules]]
    /\ results' = Append(results, task)
    /\ outcome' = [outcome EXCEPT ![task] = "row"]
    /\ since' = now
    /\ driverPc' = "cooldown"
    /\ midDrain' = FALSE
    /\ UNCHANGED <<procVars, readerVars, task, start_time, end_time, readings,
                   power_samples, baseline_watts, preCal, calGot, winGot,
                   used, cleared, window, calibrations, queue, pushed,
                   stop_event, now, simple, fileRun, debug, stderrPipe,
                   pushedAtStop>>

\* Line 203: the cool-down sleep is over
CooldownWake ==
    /\ driverPc = "cooldown"
    /\ now > since
    /\ driverPc' = AfterTask
    /\ task' = NextTaskIndex
    /\ UNCHANGED <<procVars, readerVars, since, start_time, end_time,
                   readings, power_samples, results, baseline_watts, histVars,
                   queue, pushed, stop_event, now, simple, fileRun, debug,
                   stderrPipe, pushedAtStop>>

\* Line 206: monitor.stop(), which sets the stop event (lines 88-89)
Stop ==
    /\ driverPc = "stop"
    /\ stop_event' = TRUE
    /\ pushedAtStop' = Len(pushed)
    /\ driverPc' = "join"
    /\ UNCHANGED <<procVars, readerVars, task, since, start_time, end_time,
                   readings, power_samples, results, baseline_watts, histVars,
                   queue, pushed, now, simple, fileRun, debug, stderrPipe>>

\* Line 207: monitor.join() returns once the thread has ended
Join ==
    /\ driverPc = "join"
    /\ readerPc \in {"done", "failed"}
    /\ driverPc' = "done"
    /\ UNCHANGED <<procVars, readerVars, task, since, start_time, end_time,
                   readings, power_samples, results, baseline_watts, histVars,
                   queue, pushed, stop_event, now, simple, fileRun, debug,
                   stderrPipe, pushedAtStop>>

\* Line 93, in a second call of calibrate_baseline on the monitor, made
\* once run_experiment has returned: self.start() raises RuntimeError,
\* which leaves calibrate_baseline before anything else is done
CalibrateAgain ==
    /\ driverPc = "done"
    /\ IF CanStart(readerPc)
       THEN /\ readerPc' = "spawn"
            /\ driverPc' = "cal_sleep"
            /\ since' = now
       ELSE /\ driverPc' = "raised"
            /\ UNCHANGED <<readerPc, since>>
    /\ UNCHANGED <<procVars, buffer, consumed, task, start_time, end_time,
                   readings, power_samples, results, baseline_watts, histVars,
                   queue, pushed, stop_event, now, simple, fileRun, debug,
                   stderrPipe, pushedAtStop>>

Started == driverPc \notin {"init", "done", "interrupted", "raised"}

\* A KeyboardInterrupt reaches the driver: it is no Exception, so line 198
\* does not catch it and it leaves run_experiment, whose locals are gone
Interrupt ==
    /\ Started
    /\ driverPc' = "interrupted"
    /\ task' = 1 /\ since' = 0 /\ start_time' = 0 /\ end_time' = 0
    /\ readings' = <<>> /\ power_samples' = <<>>
    /\ midDrain' = FALSE
    /\ UNCHANGED <<procVars, readerVars, results, baseline_watts, preCal,
                   calGot, winGot, used, cleared, window, outcome, metrics,
                   calibrations, queue, pushed, stop_event, now, simple,
                   fileRun, debug, stderrPipe, pushedAtStop>>

\* The driver is in time.sleep or waits for the response of the request
Blocked ==
    driverPc \in {"cal_sleep", "settle", "infer", "final_sleep", "cooldown"}

\* The clock is a logical one: it advances by one tick during each blocking
\* call of the driver, which returns after the tick
Tick ==
    /\ Blocked
    /\ now <= since
    /\ now' = now + 1
    /\ UNCHANGED <<procVars, readerVars, driverVars, histVars, queue, pushed,
                   stop_event, simple, fileRun, debug, stderrPipe,
                   pushedAtStop>>

Init ==
    /\ pipe = <<>> /\ closed = FALSE /\ hung = FALSE /\ written = 0
    /\ sigterm = {}
    /\ readerPc = "idle" /\ buffer = <<>> /\ queue = <<>>
    /\ stop_event = FALSE /\ now = 0 /\ simple = <<>>
    /\ FileRunIdle
    /\ DebugIdle
    /\ StderrEmpty
    /\ pushedAtStop = 0
    /\ driverPc = "init" /\ task = 1 /\ since = 0 /\ start_time = 0
    /\ end_time = 0 /\ readings = <<>> /\ power_samples = <<>>
    /\ results = <<>> /\ baseline_watts = Rat(0, 1)
    /\ pushed = <<>> /\ consumed = <<>> /\ preCal = {} /\ calGot = <<>>
    /\ winGot = [k \in Tasks |-> <<>>] /\ used = [k \in Tasks |-> {}]
    /\ cleared = {} /\ window = [k \in Tasks |-> <<0, 0>>]
    /\ outcome = [k \in Tasks |-> "none"]
    /\ metrics = [k \in Tasks |-> <<>>]
    /\ calibrations = 0 /\ midDrain = FALSE

Next ==
    \/ ProcWrite \/ ProcClose \/ ProcHang
    \/ ReaderSpawn \/ ReaderSpawnFail \/ ReaderReadChar \/ ReaderReadEOF
    \/ ReaderTerminate
    \/ CalStart \/ CalWake \/ CalDrainCheck \/ CalDrainGet \/ CalSetBaseline
    \/ CalClear \/ CalReturn
    \/ TaskClear \/ TaskStart \/ InferReturn \/ InferFail \/ FinalWake
    \/ DrainCheck \/ DrainGet \/ NoSamples \/ Compute \/ CooldownWake
    \/ Stop \/ Join \/ Interrupt \/ CalibrateAgain \/ Tick

Spec == Init /\ [][Next]_vars

\* The steps of the two drain loops, lines 97-98 and 161-164, and of their
\* exits: none of them waits for anything but the queue
DrainStep ==
    \/ CalDrainCheck
    \/ CalDrainGet
    \/ CalSetBaseline
    \/ DrainCheck
    \/ DrainGet
    \/ NoSamples
    \/ Compute

\* The steps of a run in which nothing fails: the subprocess writes, the
\* reader reads and puts, every request returns and no interrupt arrives
NextFair ==
    \/ ProcWrite
    \/ ReaderSpawn \/ ReaderReadChar \/ ReaderTerminate
    \/ CalStart \/ CalWake \/ CalDrainCheck \/ CalDrainGet \/ CalSetBaseline
    \/ CalClear \/ CalReturn
    \/ TaskClear \/ TaskStart \/ InferReturn \/ FinalWake
    \/ DrainCheck \/ DrainGet \/ NoSamples \/ Compute \/ CooldownWake
    \/ Stop \/ Join \/ Tick

\* Such a run with a driver thread that is not starved inside a drain loop
SpecFair == Init /\ [][NextFair]_vars /\ WF_vars(DrainStep)

----------------------------------------------------------------------------
(* The file-based variant: llm_joulemeter_simple.py                        *)

\* round(x, 2) for x >= 0: the nearest hundredth, a tie going to the even
\* one; the representation error of binary floats is left out
Round2(x) ==
    LET q == (x.n * 100) \div x.d
        r == (x.n * 100) % x.d
    IN  IF 2 * r < x.d THEN Rat(q, 100)
        ELSE IF 2 * r > x.d THEN Rat(q + 1, 100)
        ELSE IF q % 2 = 0 THEN Rat(q, 100) ELSE Rat(q + 1, 100)

\* run_with_power_monitoring lines 104-111 and 131: the rounded mean of all
\* the readings of the power file, 0 when there is none
SimpleAvgPower(power_readings) ==
    Round2(IF power_readings # <<>> THEN Mean(power_readings) ELSE Rat(0, 1))

\* main line 162: round(max(0.1, result["avg_power_w"] - baseline_power), 2)
SimpleNetPower(avg_power_w, baseline_power) ==
    Round2(PyMax(Rat(1, 10), RSub(avg_power_w, baseline_power)))

\* One run of the file-based variant over the readings as first drawn, taken
\* as the readings of its power file: run_with_power_monitoring lines
\* 96-134, main lines 161-162
SimpleRun ==
    /\ simple = <<>>
    /\ driverPc = "drain_check"
    /\ winGot[task] = <<>>
    /\ LET power_readings == [i \in 1 .. Len(queue) |-> queue[i].watts]
           avg_power_w == SimpleAvgPower(power_readings)
       IN  simple' = [samples |-> Len(power_readings),
                      avg_power_w |-> avg_power_w,
                      net_power_w |-> SimpleNetPower(avg_power_w, baseline_watts)]
    /\ UNCHANGED <<procVars, readerVars, driverVars, histVars, queue, pushed,
                   stop_event, now, fileRun, debug, stderrPipe, pushedAtStop>>

----------------------------------------------------------------------------
(* The file-based variant step by step: main, get_baseline_power and one   *)
(* call of run_with_power_monitoring.  fileRun.power_file holds the        *)
(* readings of the power file, each with the clock value at which the      *)
(* sampler wrote it; every blocking call of the run lasts one tick.        *)

\* The readings powermetrics reports
SimpleWatts == {Rat(5, 1), Rat(9, 1)}

\* The matches get_baseline_power can find in the output of its own
\* powermetrics run, line 43
BaselineMatches == {<<>>, <<Rat(5, 1)>>, <<Rat(5, 1), Rat(6, 1)>>}

\* get_baseline_power lines 45-51: the mean of the matches, or 4.0
GetBaselinePower(matches) ==
    IF matches # <<>> THEN Mean(matches) ELSE Rat(4, 1)

\* max(power_readings) on a non-empty list
RECURSIVE MaxOf(_)
MaxOf(rs) ==
    IF Len(rs) = 1 THEN Head(rs)
    ELSE IF RLe(MaxOf(Tail(rs)), Head(rs)) THEN Head(rs) ELSE MaxOf(Tail(rs))

\* Lines 104-111 and 132: the rounded maximum of the readings, 0 without
SimpleMaxPower(power_readings) ==
    Round2(IF power_readings # <<>> THEN MaxOf(power_readings) ELSE Rat(0, 1))

\* The values of the readings of a power file, in file order
FileWatts(file) == [i \in 1 .. Len(file) |-> file[i].watts]

\* main line 147: baseline_power = get_baseline_power()
SimpleGetBaseline ==
    /\ fileRun.pc = "init"
    /\ \E matches \in BaselineMatches :
          fileRun' = [fileRun EXCEPT !.pc = "ready",
                         !.baseline_power = GetBaselinePower(matches)]
    /\ UNCHANGED <<procVars, readerVars, driverVars, histVars, queue, pushed,
                   stop_event, now, simple, debug, stderrPipe, pushedAtStop>>

\* Lines 58-63: Popen(power_cmd, shell=True, preexec_fn=os.setsid);
\* time.sleep(1) begins
SimpleSpawn ==
    /\ fileRun.pc = "ready"
    /\ fileRun' = [fileRun EXCEPT !.pc = "stabilise"]
    /\ UNCHANGED <<procVars, readerVars, driverVars, histVars, queue, pushed,
                   stop_event, now, simple, debug, stderrPipe, pushedAtStop>>

\* The sampler's process group was created and no signal was sent to it
Sampling ==
    /\ fileRun.pc \notin {"init", "ready"}
    /\ fileRun.killpg = 0

\* powermetrics appends a reading to the power file
SamplerWrite ==
    /\ Sampling
    /\ Len(fileRun.power_file) < MaxLines
    /\ \E watts \in SimpleWatts :
          fileRun' = [fileRun EXCEPT !.power_file =
                         Append(@, [t |-> fileRun.clock, watts |-> watts])]
    /\ UNCHANGED <<procVars, readerVars, driverVars, histVars, queue, pushed,
                   stop_event, now, simple, debug, stderrPipe, pushedAtStop>>

\* Lines 63-69: the sleep is over; start_time = time.time(); the blocking
\* request is sent
SimpleStart ==
    /\ fileRun.pc = "stabilise"
    /\ fileRun' = [fileRun EXCEPT !.pc = "infer", !.clock = @ + 1,
                                  !.start_time = fileRun.clock + 1]
    /\ UNCHANGED <<procVars, readerVars, driverVars, histVars, queue, pushed,
                   stop_event, now, simple, debug, stderrPipe, pushedAtStop>>

\* Lines 69-92: the response arrived a tick later; end_time = time.time();
\* time.sleep(1) begins, during which the clock is past end_time
SimpleInferReturn ==
    /\ fileRun.pc = "infer"
    /\ fileRun' = [fileRun EXCEPT !.pc = "tail", !.clock = @ + 2,
                                  !.end_time = fileRun.clock + 1]
    /\ UNCHANGED <<procVars, readerVars, driverVars, histVars, queue, pushed,
                   stop_event, now, simple, debug, stderrPipe, pushedAtStop>>

\* os.killpg(os.getpgid(power_proc.pid), signal.SIGTERM)
KillPg(sent) == sent + 1

\* Lines 86-89 and main line 161: the request raised an Exception; the
\* process group is signalled and None is returned, which main skips
SimpleInferFail ==
    /\ fileRun.pc = "infer"
    /\ fileRun' = [fileRun EXCEPT !.pc = "returned", !.clock = @ + 1,
                                  !.killpg = KillPg(@)]
    /\ simple' = [returned |-> "None"]
    /\ UNCHANGED <<procVars, readerVars, driverVars, histVars, queue, pushed,
                   stop_event, now, debug, stderrPipe, pushedAtStop>>

\* Lines 92-94: the sleep is over; the process group is signalled;
\* time.sleep(0.5) begins
SimpleKill ==
    /\ fileRun.pc = "tail"
    /\ fileRun' = [fileRun EXCEPT !.pc = "settle", !.clock = @ + 1,
                                  !.killpg = KillPg(@)]
    /\ UNCHANGED <<procVars, readerVars, driverVars, histVars, queue, pushed,
                   stop_event, now, simple, debug, stderrPipe, pushedAtStop>>

\* Lines 94-139 and main lines 161-165: the sleep is over; the power file
\* is read, or reading it raises; the result dict; main adds the net power
\* and the energy
SimpleParse ==
    /\ fileRun.pc = "settle"
    /\ \E readable \in BOOLEAN :
          LET power_readings ==
                  IF readable THEN FileWatts(fileRun.power_file) ELSE <<>>
              avg_power_w == SimpleAvgPower(power_readings)
              time_s == Round2(Elapsed(fileRun.start_time, fileRun.end_time))
              net_power_w == SimpleNetPower(avg_power_w,
                                            fileRun.baseline_power)
          IN  simple' = [returned |-> "result",
                         samples |-> Len(power_readings),
                         time_s |-> time_s,
                         avg_power_w |-> avg_power_w,
                         max_power_w |-> SimpleMaxPower(power_readings),
                         net_power_w |-> net_power_w,
                         joules |-> Round2(RMul(net_power_w, time_s))]
    /\ fileRun' = [fileRun EXCEPT !.pc = "returned", !.clock = @ + 1]
    /\ UNCHANGED <<procVars, readerVars, driverVars, histVars, queue, pushed,
                   stop_event, now, debug, stderrPipe, pushedAtStop>>

\* A KeyboardInterrupt reaches run_with_power_monitoring between the spawn
\* and its return: it is no Exception, so line 86 does not catch it, and it
\* leaves the function and main
SimpleInterrupt ==
    /\ fileRun.pc \in {"stabilise", "infer", "tail", "settle"}
    /\ fileRun' = [fileRun EXCEPT !.pc = "interrupted"]
    /\ UNCHANGED <<procVars, readerVars, driverVars, histVars, queue, pushed,
                   stop_event, now, simple, debug, stderrPipe, pushedAtStop>>

NoHistory ==
    /\ pushed = <<>> /\ consumed = <<>> /\ preCal = {} /\ calGot = <<>>
    /\ winGot = [k \in Tasks |-> <<>>] /\ used = [k \in Tasks |-> {}]
    /\ cleared = {} /\ window = [k \in Tasks |-> <<0, 0>>]
    /\ outcome = [k \in Tasks |-> "none"]
    /\ metrics = [k \in Tasks |-> <<>>]
    /\ calibrations = 0 /\ midDrain = FALSE

DriverIdle ==
    /\ driverPc = "init" /\ task = 1 /\ since = 0 /\ start_time = 0
    /\ end_time = 0 /\ readings = <<>> /\ power_samples = <<>>
    /\ results = <<>> /\ baseline_watts = Rat(0, 1)

InitSimple ==
    /\ pipe = <<>> /\ closed = FALSE /\ hung = FALSE /\ written = 0
    /\ sigterm = {}
    /\ readerPc = "idle" /\ buffer = <<>> /\ queue = <<>>
    /\ stop_event = FALSE /\ now = 0
    /\ simple = <<>>
    /\ FileRunIdle
    /\ DebugIdle
    /\ StderrEmpty
    /\ pushedAtStop = 0
    /\ DriverIdle
    /\ NoHistory

NextSimple ==
    \/ SimpleGetBaseline \/ SimpleSpawn \/ SamplerWrite \/ SimpleStart
    \/ SimpleInferReturn \/ SimpleInferFail \/ SimpleKill \/ SimpleParse
    \/ SimpleInterrupt

SpecSimple == InitSimple /\ [][NextSimple]_vars

----------------------------------------------------------------------------
(* The reader alone, over every stream of at most MaxStreamLines lines     *)

ReaderLines ==
    { <<"I", ":", " ", "5", "W", "\n">>,
      <<"I", ":", " ", "6", ".", "5", "W", "\n">>,
      <<"I", ":", " ", "7", "\n">>,
      <<"x", "\n">>,
      <<Undecodable, "\n">>,
      <<"\n">> }

RECURSIVE Concat(_)
Concat(ls) == IF ls = <<>> THEN <<>> ELSE Head(ls) \o Concat(Tail(ls))

Streams ==
    UNION {{Concat(ls) : ls \in [1 .. k -> ReaderLines]} : k \in 0 .. MaxStreamLines}

InitReader ==
    /\ pipe \in Streams
    /\ closed = TRUE /\ hung = FALSE /\ written = 0 /\ sigterm = {}
    /\ readerPc = "read" /\ buffer = <<>> /\ queue = <<>>
    /\ stop_event = FALSE /\ now = 0 /\ simple = <<>>
    /\ FileRunIdle
    /\ DebugIdle
    /\ StderrEmpty
    /\ pushedAtStop = 0
    /\ DriverIdle
    /\ NoHistory

NextReader ==
    ReaderReadChar \/ ReaderReadError \/ ReaderReadEOF \/ ReaderTerminate

SpecReader == InitReader /\ [][NextReader]_vars

\* The reader over a stream, with a driver that is about to call stop()
\* (line 206) and join() (line 207) at any point of the reading
InitCancel ==
    /\ pipe \in Streams
    /\ closed = TRUE /\ hung = FALSE /\ written = 0 /\ sigterm = {}
    /\ readerPc = "read" /\ buffer = <<>> /\ queue = <<>>
    /\ stop_event = FALSE /\ now = 0 /\ simple = <<>>
    /\ FileRunIdle
    /\ DebugIdle
    /\ StderrEmpty
    /\ pushedAtStop = 0
    /\ driverPc = "stop" /\ task = 1 /\ since = 0 /\ start_time = 0
    /\ end_time = 0 /\ readings = <<>> /\ power_samples = <<>>
    /\ results = <<>> /\ baseline_watts = Rat(0, 1)
    /\ NoHistory

NextCancel ==
    \/ ReaderReadChar
    \/ ReaderReadError
    \/ ReaderReadEOF
    \/ ReaderTerminate
    \/ Stop
    \/ Join

SpecCancel == InitCancel /\ [][NextCancel]_vars

\* n characters that are neither a newline nor part of a reading
Pad(n) == [i \in 1 .. n |-> "x"]

\* Streams longer than the cap of the buffer: without any newline, with a
\* newline after the cap, with a reading at the two ends of a line longer
\* than the cap, and with a reading before and after such a line
LongStreams ==
    { Pad(BufferCap + 2),
      Pad(BufferCap) \o <<"\n", "I", ":", " ", "5", "W", "\n">>,
      <<"I">> \o Pad(BufferCap) \o <<":", " ", "5", "W", "\n", "x", "\n">>,
      <<"I", ":", " ", "5", "W", "\n">> \o Pad(BufferCap)
          \o <<"\n", "I", ":", " ", "6", ".", "5", "W", "\n">> }

InitLong ==
    /\ pipe \in LongStreams
    /\ closed = TRUE /\ hung = FALSE /\ written = 0 /\ sigterm = {}
    /\ readerPc = "read" /\ buffer = <<>> /\ queue = <<>>
    /\ stop_event = FALSE /\ now = 0 /\ simple = <<>>
    /\ FileRunIdle
    /\ DebugIdle
    /\ StderrEmpty
    /\ pushedAtStop = 0
    /\ DriverIdle
    /\ NoHistory

NextLong == ReaderReadChar \/ ReaderReadEOF \/ ReaderTerminate

SpecLong == InitLong /\ [][NextLong]_vars

----------------------------------------------------------------------------
(* The diagnostic script, debug_power.py.  The literal text of a pattern   *)
(* is written as one symbol: "I" for the Intel literal, "P" for "Package   *)
(* Power", "C" for "CPU Power"; the pattern "Any Watts" has no literal and *)
(* starts at the captured group.                                           *)

\* Line 28: the primary pattern
intel_pattern == [name |-> "Intel", lit |-> "I", prefixed |-> TRUE]

\* Variant of alt_patterns: "CPU Power" is listed before "Package Power"
alt_patterns_swapped ==
    << [name |-> "CPU Power", lit |-> "C", prefixed |-> TRUE],
       [name |-> "Package Power", lit |-> "P", prefixed |-> TRUE],
       [name |-> "Any Watts", lit |-> "", prefixed |-> FALSE] >>

\* Lines 37-41: the alternative patterns, in their listed order
alt_patterns ==
    << [name |-> "Package Power", lit |-> "P", prefixed |-> TRUE],
       [name |-> "CPU Power", lit |-> "C", prefixed |-> TRUE],
       [name |-> "Any Watts", lit |-> "", prefixed |-> FALSE] >>

\* The pattern of line 40 anchored at index i: the group (one or more
\* digits, an optional dot, any digits), any whitespace, "W"
AnyTail(s, i) ==
    LET b == RunEnd(s, i, Digits)
        c == IF b + 1 <= Len(s) /\ s[b + 1] = "." THEN b + 1 ELSE b
        d == RunEnd(s, c + 1, Digits)
        e == RunEnd(s, d + 1, Spaces)
    IN  IF b >= i /\ e + 1 <= Len(s) /\ s[e + 1] = "W"
        THEN [ok |-> TRUE, from |-> i, to |-> d]
        ELSE [ok |-> FALSE, from |-> 0, to |-> 0]

\* The indices from p on at which pattern pat matches s
PatStarts(pat, s, p) ==
    IF pat.prefixed
    THEN {i \in p .. Len(s) : s[i] = pat.lit /\ ColonsFor(s, i) # {}}
    ELSE {i \in p .. Len(s) : AnyTail(s, i).ok}

\* The captured group of the match of pat at index i of s
PatGroup(pat, s, i) ==
    IF pat.prefixed
    THEN LET j == CHOOSE x \in ColonsFor(s, i) :
                      \A y \in ColonsFor(s, i) : x <= y
         IN  MatchTail(s, j + 1)
    ELSE AnyTail(s, i)

RECURSIVE FindAllFrom(_, _, _)
\* re.compile(pattern).findall(s): the groups of the matches found from
\* left to right, each search starting after the "W" of the match before
FindAllFrom(pat, s, p) ==
    LET starts == PatStarts(pat, s, p)
    IN  IF starts = {} THEN <<>>
        ELSE LET i == CHOOSE x \in starts : \A y \in starts : x <= y
                 m == PatGroup(pat, s, i)
                 w == RunEnd(s, m.to + 1, Spaces) + 1
             IN  <<SubSeq(s, m.from, m.to)>> \o FindAllFrom(pat, s, w + 1)

FindAll(pat, s) == FindAllFrom(pat, s, 1)

\* The lines powermetrics can write to the stdout the script captures
DebugLines ==
    { <<"I", ":", " ", "5", "W", "\n">>,
      <<"P", ":", " ", "6", "W", "\n">>,
      <<"C", ":", " ", "7", "W", "\n">>,
      <<"8", ".", "5", " ", "W", "\n">>,
      <<"x", ":", " ", "9", "\n">> }

DebugTexts ==
    UNION {{Concat(ls) : ls \in [1 .. k -> DebugLines]} :
              k \in 0 .. MaxStreamLines}

\* Lines 16-20: communicate() returns the whole stdout of the subprocess
DebugCommunicate ==
    /\ debug.pc = "idle"
    /\ \E text \in DebugTexts :
          debug' = [debug EXCEPT !.pc = "primary", !.stdout = text]
    /\ UNCHANGED <<procVars, readerVars, driverVars, histVars, queue, pushed,
                   stop_event, now, simple, fileRun, stderrPipe,
                   pushedAtStop>>

\* Lines 28-34: the primary pattern; the alternatives are tried in the
\* else branch only
DebugPrimary ==
    /\ debug.pc = "primary"
    /\ LET matches == FindAll(intel_pattern, debug.stdout)
       IN  debug' = IF matches # <<>>
                    THEN [debug EXCEPT !.pc = "done",
                                       !.tried = <<intel_pattern.name>>,
                                       !.used = intel_pattern.name,
                                       !.matches = matches]
                    ELSE [debug EXCEPT !.pc = "alt",
                                       !.tried = <<intel_pattern.name>>]
    /\ UNCHANGED <<procVars, readerVars, driverVars, histVars, queue, pushed,
                   stop_event, now, simple, fileRun, stderrPipe,
                   pushedAtStop>>

\* Lines 43-47: one pass of the loop over alt_patterns; break at a match
DebugAlt ==
    /\ debug.pc = "alt"
    /\ Len(debug.tried) <= Len(alt_patterns)
    /\ LET pat == alt_patterns[Len(debug.tried)]
           alt_matches == FindAll(pat, debug.stdout)
       IN  debug' = IF alt_matches # <<>>
                    THEN [debug EXCEPT !.pc = "done",
                                       !.tried = Append(@, pat.name),
                                       !.used = pat.name,
                                       !.matches = alt_matches]
                    ELSE [debug EXCEPT !.tried = Append(@, pat.name)]
    /\ UNCHANGED <<procVars, readerVars, driverVars, histVars, queue, pushed,
                   stop_event, now, simple, fileRun, stderrPipe,
                   pushedAtStop>>

\* Line 43, alt_patterns is exhausted: the function returns
DebugReturn ==
    /\ debug.pc = "alt"
    /\ Len(debug.tried) > Len(alt_patterns)
    /\ debug' = [debug EXCEPT !.pc = "done"]
    /\ UNCHANGED <<procVars, readerVars, driverVars, histVars, queue, pushed,
                   stop_event, now, simple, fileRun, stderrPipe,
                   pushedAtStop>>

InitDebug ==
    /\ pipe = <<>> /\ closed = FALSE /\ hung = FALSE /\ written = 0
    /\ sigterm = {}
    /\ readerPc = "idle" /\ buffer = <<>> /\ queue = <<>>
    /\ stop_event = FALSE /\ now = 0
    /\ simple = <<>>
    /\ FileRunIdle
    /\ DebugIdle
    /\ StderrEmpty
    /\ pushedAtStop = 0
    /\ DriverIdle
    /\ NoHistory

NextDebug == DebugCommunicate \/ DebugPrimary \/ DebugAlt \/ DebugReturn

SpecDebug == InitDebug /\ [][NextDebug]_vars

\* The newline-terminated lines of s, in order
RECURSIVE LinesOf(_, _)
LinesOf(s, cur) ==
    IF s = <<>> THEN <<>>
    ELSE IF Head(s) = "\n" THEN <<Append(cur, "\n")>> \o LinesOf(Tail(s), <<>>)
    ELSE LinesOf(Tail(s), Append(cur, Head(s)))

\* The values of the lines of s that match the power pattern, in order
RECURSIVE ValuesOf(_)
ValuesOf(ls) ==
    IF ls = <<>> THEN <<>>
    ELSE (IF Search(Head(ls)).ok THEN <<ParseFloat(Search(Head(ls)).group)>>
          ELSE <<>>) \o ValuesOf(Tail(ls))

PushedWatts == [i \in 1 .. Len(pushed) |-> pushed[i].watts]

\* C1: the samples the reader has put are, in order, exactly the values of
\* the newline-terminated lines read so far that match the power pattern:
\* one sample per matching line, none for a line that matches nothing.
C1_OneSamplePerMatchingLine == PushedWatts = ValuesOf(LinesOf(consumed, <<>>))

----------------------------------------------------------------------------
(* One window drain and its metrics, over every queue content of at most   *)
(* MaxSamples samples, window and baseline                                 *)

MaxSamples == 3

MetricTimes == {1, 10, 30}

MetricWatts == {Rat(5, 1), Rat(6, 1), Rat(9, 1)}

MetricBaselines == {Rat(3, 1), Rat(6, 1), Rat(11, 2)}

MetricWindows == {<<0, 20>>, <<10, 30>>, <<10, 10>>}

\* Queue contents in put order: timestamps never decrease, ids count the puts
MetricQueues ==
    UNION {
        {[i \in 1 .. n |-> [t |-> ts[i], watts |-> ws[i], id |-> i]] :
            ts \in {f \in [1 .. n -> MetricTimes] :
                       \A i \in 1 .. n - 1 : f[i] <= f[i + 1]},
            ws \in [1 .. n -> MetricWatts]} :
        n \in 0 .. MaxSamples}

InitMetrics ==
    /\ pipe = <<>> /\ closed = FALSE /\ hung = FALSE /\ written = 0
    /\ sigterm = {}
    /\ readerPc = "idle" /\ buffer = <<>>
    /\ stop_event = FALSE /\ now = 40 /\ simple = <<>>
    /\ FileRunIdle
    /\ DebugIdle
    /\ StderrEmpty
    /\ pushedAtStop = 0
    /\ queue \in MetricQueues
    /\ pushed = queue
    /\ baseline_watts \in MetricBaselines
    /\ \E w \in MetricWindows :
          /\ start_time = w[1]
          /\ end_time = w[2]
          /\ window = [k \in Tasks |-> IF k = 1 THEN w ELSE <<0, 0>>]
    /\ driverPc = "drain_check" /\ task = 1 /\ since = 40
    /\ readings = <<>> /\ power_samples = <<>> /\ results = <<>>
    /\ consumed = <<>> /\ preCal = {} /\ calGot = <<>>
    /\ winGot = [k \in Tasks |-> <<>>] /\ used = [k \in Tasks |-> {}]
    /\ cleared = {}
    /\ outcome = [k \in Tasks |-> "none"]
    /\ metrics = [k \in Tasks |-> <<>>]
    /\ calibrations = 1 /\ midDrain = FALSE

NextMetrics == DrainCheck \/ DrainGet \/ NoSamples \/ Compute \/ SimpleRun

SpecMetrics == InitMetrics /\ [][NextMetrics]_vars

----------------------------------------------------------------------------
(* The calibration drain alone, over every queue content of at most        *)
(* MaxSamples samples put during the calibration sleep                     *)

CalWatts == {Rat(3, 1), Rat(16, 5), Rat(14, 5)}

CalQueues ==
    UNION {
        {[i \in 1 .. n |-> [t |-> 0, watts |-> ws[i], id |-> i]] :
            ws \in [1 .. n -> CalWatts]} :
        n \in 0 .. MaxSamples}

InitCalibrate ==
    /\ pipe = <<>> /\ closed = FALSE /\ hung = FALSE /\ written = 0
    /\ sigterm = {}
    /\ readerPc = "read" /\ buffer = <<>>
    /\ stop_event = FALSE /\ now = 1 /\ simple = <<>>
    /\ FileRunIdle
    /\ DebugIdle
    /\ StderrEmpty
    /\ pushedAtStop = 0
    /\ queue \in CalQueues
    /\ pushed = queue
    /\ preCal = QueueIds(queue)
    /\ baseline_watts = Rat(0, 1)
    /\ driverPc = "cal_check" /\ task = 1 /\ since = 0
    /\ start_time = 0 /\ end_time = 0
    /\ readings = <<>> /\ power_samples = <<>> /\ results = <<>>
    /\ consumed = <<>> /\ calGot = <<>>
    /\ winGot = [k \in Tasks |-> <<>>] /\ used = [k \in Tasks |-> {}]
    /\ cleared = {} /\ window = [k \in Tasks |-> <<0, 0>>]
    /\ outcome = [k \in Tasks |-> "none"]
    /\ metrics = [k \in Tasks |-> <<>>]
    /\ calibrations = 0 /\ midDrain = FALSE

NextCalibrate ==
    CalDrainCheck \/ CalDrainGet \/ CalSetBaseline \/ CalClear \/ CalReturn

SpecCalibrate == InitCalibrate /\ [][NextCalibrate]_vars

----------------------------------------------------------------------------
(* Properties                                                              *)

Range(f) == {f[i] : i \in DOMAIN f}

NoDup(f) == \A i, j \in DOMAIN f : i # j => f[i] # f[j]

RECURSIVE GotUpTo(_)
\* The ids got by the calibration drain and by the drains of tasks 1 .. k
GotUpTo(k) == IF k = 0 THEN calGot ELSE GotUpTo(k - 1) \o winGot[k]

AllGot == GotUpTo(NumTasks)

\* The ids got by the drain of task k whose timestamp lies in its window
GotInside(k) ==
    {id \in Range(winGot[k]) :
        window[k][1] <= pushed[id].t /\ pushed[id].t <= window[k][2]}

RECURSIVE WattsInside(_, _)
\* The values of the samples of ids, in order, that lie in the window of k
WattsInside(ids, k) ==
    IF ids = <<>> THEN <<>>
    ELSE (IF window[k][1] <= pushed[Head(ids)].t
             /\ pushed[Head(ids)].t <= window[k][2]
          THEN <<pushed[Head(ids)].watts>> ELSE <<>>)
         \o WattsInside(Tail(ids), k)

Draining == driverPc \in {"drain_check", "drain_get"}

\* C2: the samples that contribute to a task's metrics are exactly the
\* drained samples with start_time <= t <= end_time, both ends inclusive;
\* with none inside, the task ends as "nodata" with no row and no metrics.
C2_WindowFilter ==
    /\ \A k \in Tasks : used[k] = GotInside(k)
    /\ Draining => power_samples = WattsInside(winGot[task], task)
    /\ \A k \in Tasks :
          /\ outcome[k] = "nodata" =>
                GotInside(k) = {} /\ metrics[k] = <<>> /\ k \notin Range(results)
          /\ outcome[k] = "row" =>
                GotInside(k) # {} /\ metrics[k] # <<>> /\ k \in Range(results)

\* A task drained a sample outside its window and ended with no data, and
\* the next task produced a row
C2_Witness ==
    /\ outcome[1] = "nodata" /\ winGot[1] # <<>>
    /\ outcome[2] = "row"

\* C3: no sample contributes to two windows, no sample averaged into the
\* baseline contributes to a window, and a sample got by a drain is out of
\* the queue for good: no later drain gets it again.
C3_NoDoubleCounting ==
    /\ \A j, k \in Tasks : j # k => used[j] \cap used[k] = {}
    /\ \A k \in Tasks : Range(calGot) \cap used[k] = {}
    /\ \A j, k \in Tasks : j < k => Range(winGot[j]) \cap Range(winGot[k]) = {}
    /\ \A k \in Tasks : Range(winGot[k]) \cap QueueIds(queue) = {}
    /\ Range(calGot) \cap QueueIds(queue) = {}

\* Two windows each have a sample of their own
C3_Witness == used[1] # {} /\ used[2] # {}

\* C4 as stated: every enqueued sample that has left the queue was consumed
\* by the calibration average or by a window drain.
C4_ExactlyOnce ==
    \A id \in 1 .. Len(pushed) :
        id \in QueueIds(queue) \/ id \in Range(AllGot)

\* C4 as amended: every enqueued sample is in exactly one place: still
\* queued, got once by the calibration drain or by one window drain, or
\* removed unattributed by a clear; the queue holds only unattributed ones.
C4_AtMostOnce ==
    /\ NoDup(AllGot)
    /\ NoDup(queue)
    /\ QueueIds(queue) \cap (Range(AllGot) \cup cleared) = {}
    /\ Range(AllGot) \cap cleared = {}
    /\ QueueIds(queue) \cup Range(AllGot) \cup cleared = 1 .. Len(pushed)

\* One sample went into the calibration average, another was cleared
C4_Witness == calGot # <<>> /\ cleared # {}

\* C5: a sample put before calibrate_baseline returned is never got by a
\* window drain, so it never enters the metrics of a window.
C5_NoCalibrationLeak ==
    \A k \in Tasks : preCal \cap (Range(winGot[k]) \cup used[k]) = {}

\* A sample put after the calibration drain and before the return was
\* cleared, and a later window has a sample
C5_Witness ==
    /\ preCal \cap cleared # {}
    /\ \E k \in Tasks : used[k] # {}

\* C6: once the driver has left run_experiment, monitor.stop() was called
\* and the sampler subprocess, if it was spawned, was sent its termination
\* signal.
C6_StopOnEveryExit ==
    (driverPc \in {"done", "interrupted"} /\ Spawned) =>
        stop_event /\ SpawnedProcess \in sigterm

\* C7: when the reader has left its loop after a stop() that came while the
\* subprocess was in the middle of writing a line, the whole process group
\* was signalled.
C7_GroupSignalled ==
    (stop_event /\ readerPc = "done" /\ consumed # <<>> /\ pipe # <<>>) =>
        ProcessGroup \subseteq sigterm

\* C8: after stop(), the reader is never left in a read(1) on a hung
\* subprocess, which would keep it from ending and join() from returning.
C8_NoBlockedReadAfterStop ==
    ~(stop_event /\ hung /\ readerPc = "read" /\ pipe = <<>>)

\* C9: the net power of a row is max(0.1, avg_power_raw - baseline), hence
\* at least 0.1 and never zero or negative; the rounded net power of the
\* file-based variant is at least 0.1 too.
C9_NetPowerFloor ==
    /\ (simple # <<>> /\ simple.samples > 0) =>
          RLe(Rat(1, 10), simple.net_power_w) /\ simple.net_power_w.n > 0
    /\ \A k \in Tasks : outcome[k] = "row" =>
        LET raw == metrics[k].avg_power_raw
            net == metrics[k].avg_power_net
            diff == RSub(raw, baseline_watts)
        IN  /\ RLe(Rat(1, 10), diff) => REq(net, diff)
            /\ ~RLe(Rat(1, 10), diff) => REq(net, Rat(1, 10))
            /\ RLe(Rat(1, 10), net)
            /\ net.n > 0 /\ net.d > 0

\* A row whose raw average is at most the baseline
C9_Witness ==
    /\ outcome[1] = "row"
    /\ RLe(metrics[1].avg_power_raw, baseline_watts)
    /\ REq(metrics[1].avg_power_net, Rat(1, 10))

Scenario ==
    /\ pushed = << [t |-> 1, watts |-> Rat(5, 1), id |-> 1],
                   [t |-> 10, watts |-> Rat(6, 1), id |-> 2],
                   [t |-> 30, watts |-> Rat(9, 1), id |-> 3] >>
    /\ window[1] = <<0, 20>>
    /\ baseline_watts = Rat(3, 1)

\* C10: avg_power_raw is the mean of the in-window values, avg_power_net is
\* max(0.1, avg_power_raw - baseline), total_energy is avg_power_net times
\* (end - start); the scenario gives 5.5 W, 2.5 W and 5.0 J.
C10_DerivedMetrics ==
    outcome[1] = "row" =>
        LET m == metrics[1]
            inside == WattsInside([i \in 1 .. Len(pushed) |-> i], 1)
            diff == RSub(m.avg_power_raw, baseline_watts)
        IN  /\ m.avg_power_raw.n * RSum(inside).d * Len(inside)
                  = RSum(inside).n * m.avg_power_raw.d
            /\ REq(m.avg_power_net, IF RLe(diff, Rat(1, 10)) THEN Rat(1, 10) ELSE diff)
            /\ m.total_energy_joules.n * m.avg_power_net.d * 10
                  = m.avg_power_net.n * (window[1][2] - window[1][1])
                    * m.total_energy_joules.d
            /\ Scenario =>
                  /\ REq(m.avg_power_raw, Rat(55, 10))
                  /\ REq(m.avg_power_net, Rat(25, 10))
                  /\ REq(m.total_energy_joules, Rat(5, 1))

\* The scenario, reduced to its row
C10_Witness == Scenario /\ outcome[1] = "row"

\* The values of the samples the calibration drain got, in get order
CalGotWatts == [i \in 1 .. Len(calGot) |-> pushed[calGot[i]].watts]

Calibrated == driverPc \in {"cal_clear", "cal_return", "task_clear"}

\* C11: once calibrate_baseline has set the baseline, it is the arithmetic
\* mean of the values the drain got when it got any (3.0, 3.2, 2.8 give
\* 3.0) and the 3.0 W default when it got none; it is not the initial 0.0.
C11_BaselineMeanOrDefault ==
    Calibrated =>
        /\ calGot # <<>> =>
              baseline_watts.n * RSum(CalGotWatts).d * Len(calGot)
                  = RSum(CalGotWatts).n * baseline_watts.d
        /\ calGot = <<>> => REq(baseline_watts, Rat(3, 1))
        /\ ~REq(baseline_watts, Rat(0, 1))
        /\ CalGotWatts = <<Rat(3, 1), Rat(16, 5), Rat(14, 5)>> =>
              REq(baseline_watts, Rat(3, 1))

\* calibrate_baseline has returned with the baseline of 3.0, 3.2 and 2.8
C11_Witness ==
    /\ driverPc = "task_clear"
    /\ CalGotWatts = <<Rat(3, 1), Rat(16, 5), Rat(14, 5)>>
    /\ REq(baseline_watts, Rat(3, 1))

\* calibrate_baseline has returned with the default, having drained nothing
C11_WitnessDefault ==
    /\ driverPc = "task_clear"
    /\ calGot = <<>>
    /\ REq(baseline_watts, Rat(3, 1))

\* C12: the baseline is computed exactly once per monitor: once it has
\* been assigned, no step of a later task, drain, clear or stop, nor a
\* second call of calibrate_baseline, assigns or changes it again.
C12_BaselineImmutable ==
    [][calibrations >= 1 =>
          /\ baseline_watts' = baseline_watts
          /\ calibrations' = calibrations]_vars

\* After a task with a row and the stop, calibrate_baseline was called a
\* second time and the baseline is still the one assignment of the first
C12_Witness ==
    /\ driverPc = "raised"
    /\ calibrations = 1 /\ midDrain = FALSE
    /\ \E k \in Tasks : outcome[k] = "row"

\* The ids the drain loop the driver is in has got so far
CurGot == IF driverPc \in {"cal_check", "cal_get"} THEN calGot ELSE winGot[task]

\* The ids got by the drains that ended before the current one began
EarlierGot ==
    IF driverPc \in {"cal_check", "cal_get"} THEN {}
    ELSE Range(calGot) \cup UNION {Range(winGot[k]) : k \in 1 .. task - 1}

\* C13: a drain loop that runs while the reader puts samples acts as one
\* atomic drain taken at the point where it finds the queue empty: at that
\* point it has returned, in put order and once each, every sample put so
\* far that no earlier drain or clear removed; a drain returns nothing but
\* samples put after everything an earlier drain returned, so with no put
\* in between it returns nothing, and no sample is returned by two drains.
C13_DrainAtomic ==
    /\ InDrainLoop =>
          /\ \A i \in 1 .. Len(CurGot) - 1 : CurGot[i + 1] = CurGot[i] + 1
          /\ \A a \in EarlierGot \cup cleared : \A b \in Range(CurGot) : a < b
          /\ (driverPc \in {"cal_check", "drain_check"} /\ queue = <<>>) =>
                /\ Range(CurGot) = (1 .. Len(pushed)) \ (EarlierGot \cup cleared)
                /\ CurGot # <<>> => CurGot[Len(CurGot)] = Len(pushed)
    /\ NoDup(AllGot)

\* A drain loop got a sample that was put after the loop had begun and
\* now finds the queue empty
C13_Witness ==
    /\ driverPc = "drain_check" /\ queue = <<>>
    /\ midDrain
    /\ Len(winGot[task]) >= 2

\* The ids of got are in put order and their timestamps never decrease
InPutOrder(got) ==
    \A i, j \in 1 .. Len(got) :
        i < j => got[i] < got[j] /\ pushed[got[i]].t <= pushed[got[j]].t

C15_SimpleNoDataDistinct ==
    ~ /\ fileRun.pc = "returned"
      /\ simple.returned = "result"
      /\ simple.samples = 0

\* The reader has left its loop: it is at process.terminate() or past it
LoopEnded == readerPc \in {"terminate", "done"}

\* C16: when the driver comes to call stop() and the reader loop has ended
\* before, on the end of the stream, the driver has been given a
\* SamplerDied report that shows in what it records for its tasks; when
\* the loop is still running at stop(), nothing of the kind is reported.
C16_SamplerDiedReported ==
    [][(driverPc = "stop" /\ driverPc' = "join") =>
          (LoopEnded <=> \E k \in Tasks : outcome'[k] = "sampler_died")]_vars

\* C17: when spawning the sampler subprocess has failed, the failure
\* reaches the caller that started the monitor: the driver does not go on
\* to set a baseline and to run tasks on a reader that has no subprocess.
C17_SpawnFailurePropagated ==
    readerPc = "failed" =>
        /\ calibrations = 0
        /\ \A k \in Tasks : outcome[k] = "none"
        /\ driverPc \in {"cal_sleep", "cal_check", "interrupted"}

\* The whole output of the subprocess: what was read and what is to be read
WholeStream == consumed \o pipe

\* C18: an error raised while one line is handled drops that line only and
\* the loop goes on: when the reader has ended, every line of the output
\* that matches the power pattern has given a sample, the lines after the
\* error included.
C18_ErrorDropsOneSample ==
    readerPc = "done" =>
        Len(pushed) >= Len(ValuesOf(LinesOf(WholeStream, <<>>)))

RECURSIVE FileWattsInside(_, _, _)
\* The values of the readings of a power file written inside [start, end]
FileWattsInside(file, start, end) ==
    IF file = <<>> THEN <<>>
    ELSE (IF start <= Head(file).t /\ Head(file).t <= end
          THEN <<Head(file).watts>> ELSE <<>>)
         \o FileWattsInside(Tail(file), start, end)

\* C19: in the file-based variant the average and the maximum power of a
\* run are taken over the readings written inside [start_time, end_time]
\* only: readings of the stabilisation second before the request and of
\* the second between the response and the kill are left out.
C19_SimpleWindowFilter ==
    (fileRun.pc = "returned" /\ simple.returned = "result"
        /\ simple.samples > 0) =>
        LET inside == FileWattsInside(fileRun.power_file,
                                      fileRun.start_time, fileRun.end_time)
        IN  /\ REq(simple.avg_power_w, SimpleAvgPower(inside))
            /\ REq(simple.max_power_w, SimpleMaxPower(inside))

\* C20: whichever way run_with_power_monitoring is left after it spawned
\* the sampler in its own process group, by its normal return, by an error
\* of the request or by an interruption, SIGTERM was sent to the process
\* group, and exactly once.
C20_GroupKilledOnEveryExit ==
    fileRun.pc \in {"returned", "interrupted"} => fileRun.killpg = 1

\* The lifecycle state of the sampler, read off the reader thread and the
\* stop event; a monitor whose spawn failed is in none of the five states
Lifecycle(pc, stop) ==
    CASE pc = "idle" -> "Idle"
      [] pc = "spawn" -> "Starting"
      [] pc = "read" /\ ~stop -> "Running"
      [] pc = "read" /\ stop -> "Stopping"
      [] pc = "terminate" -> "Stopping"
      [] pc = "done" -> "Terminated"
      [] pc = "failed" -> "Failed"

LifecycleRank(state) ==
    CASE state = "Idle" -> 0
      [] state = "Starting" -> 1
      [] state = "Running" -> 2
      [] state = "Stopping" -> 3
      [] state \in {"Terminated", "Failed"} -> 4

\* C21: the sampler only moves forward through Idle, Starting, Running,
\* Stopping, Terminated and never re-enters a state it has left; the
\* subprocess is spawned from Idle only, samples are put only while
\* Running or Stopping, and Terminated is entered only from the ended
\* reader loop, with the subprocess signalled.
C21_LifecycleForward ==
    [][LET old == Lifecycle(readerPc, stop_event)
           new == Lifecycle(readerPc', stop_event')
       IN  /\ LifecycleRank(old) <= LifecycleRank(new)
           /\ (old # new /\ new = "Starting") => old = "Idle"
           /\ pushed' # pushed => old \in {"Running", "Stopping"}
           /\ (old # new /\ new = "Terminated") =>
                 /\ readerPc = "terminate"
                 /\ SpawnedProcess \in sigterm']_vars

\* The sampler is Terminated after a stop(), having put a sample
C21_Witness ==
    /\ Lifecycle(readerPc, stop_event) = "Terminated"
    /\ stop_event
    /\ pushed # <<>>
    /\ driverPc = "done"

\* s is an initial part of t
IsPrefix(s, t) ==
    /\ Len(s) <= Len(t)
    /\ \A i \in 1..Len(s) : s[i] = t[i]

\* C22: when the reader loop ends, whether the stop event was seen, the
\* stream ended or reading raised, the thread finishes only after it sent
\* a termination signal to the subprocess, and neither stop() nor the exit
\* of the loop changes the samples that are in the queue.
C22_SignalOnEveryLoopExit ==
    [][/\ (readerPc = "read" /\ readerPc' # "read") =>
             /\ readerPc' = "terminate"
             /\ IsPrefix(queue, queue')
       /\ (readerPc # "done" /\ readerPc' = "done") =>
             /\ SpawnedProcess \in sigterm'
             /\ queue' = queue
       /\ stop_event' # stop_event => queue' = queue]_vars

\* The reader saw the stop event in the middle of the stream, with a sample
\* in the queue, and the thread has finished
C22_Witness ==
    /\ readerPc = "done"
    /\ stop_event
    /\ pipe # <<>>
    /\ queue # <<>>
    /\ driverPc = "done"

\* The reader loop was ended by a read error, with a sample in the queue
C22_WitnessError ==
    /\ readerPc = "done"
    /\ ~stop_event
    /\ consumed # <<>>
    /\ consumed[Len(consumed)] = Undecodable
    /\ queue # <<>>

\* The reader thread has evaluated the loop condition of line 62, which
\* tests the stop event, at least once
StopTestedByReader == readerPc \in {"read", "terminate", "done"}

\* C23: the sample queue is the only mutable state that both threads
\* access: the line buffer changes in steps of the reader only, the
\* baseline in steps of the driver only, and the stop signal is not
\* written by one thread and read by the other.
C23_QueueOnlyShared ==
    [][/\ buffer' # buffer => (readerPc = "read" /\ driverPc' = driverPc)
       /\ baseline_watts' # baseline_watts => readerPc' = readerPc
       /\ (stop_event' # stop_event /\ driverPc' # driverPc) =>
             ~StopTestedByReader']_vars

\* C24: the buffer of the reader stays bounded for every stream: it never
\* holds more than the cap of 1000 characters once a character has been
\* processed, whether or not a newline arrives.
C24_BufferBounded == Len(buffer) <= BufferCap

\* The patterns of the extractor in the order the claim lists them
PatternOrder == <<intel_pattern>> \o
    << [name |-> "Package Power", lit |-> "P", prefixed |-> TRUE],
       [name |-> "CPU Power", lit |-> "C", prefixed |-> TRUE],
       [name |-> "Any Watts", lit |-> "", prefixed |-> FALSE] >>

\* The positions in PatternOrder of the patterns that match text
Matching(text) ==
    {k \in 1 .. Len(PatternOrder) : PatStarts(PatternOrder[k], text, 1) # {}}

\* C25: the extractor tries the primary pattern first and the fallbacks,
\* in the order Package Power, CPU Power, Any Watts, only as far as the
\* first pattern that matches: the patterns tried are exactly those up to
\* the first matching one, the reading comes from that one, and a text
\* that matches no pattern gives no reading after all four were tried.
C25_FirstMatchingPattern ==
    debug.pc = "done" =>
        LET hits == Matching(debug.stdout)
        IN  IF hits = {}
            THEN /\ debug.used = "none"
                 /\ debug.matches = <<>>
                 /\ debug.tried = [k \in 1 .. Len(PatternOrder) |->
                                     PatternOrder[k].name]
            ELSE LET first == CHOOSE k \in hits : \A m \in hits : k <= m
                 IN  /\ debug.used = PatternOrder[first].name
                     /\ debug.matches # <<>>
                     /\ debug.tried = [k \in 1 .. first |->
                                         PatternOrder[k].name]

\* A text without the primary literal in which both "Package Power" and
\* "CPU Power" match: the reading comes from "Package Power"
C25_Witness ==
    /\ debug.pc = "done"
    /\ debug.used = "Package Power"
    /\ Matching(debug.stdout) = {2, 3, 4}

\* A text that no pattern matches
C25_WitnessNoMatch ==
    /\ debug.pc = "done"
    /\ debug.stdout # <<>>
    /\ debug.used = "none"

\* C26: the monitor consumes every pipe it opened on the subprocess, so
\* the subprocess is never blocked in a write to a full pipe while the
\* reader waits in read(1) for output on the other pipe.
C26_NoPipeLeftUnread ==
    ~ /\ stderrPipe.blocked
      /\ readerPc = "read"
      /\ pipe = <<>>
      /\ ~closed

\* C27: once stop() has set the stop event the reader puts at most one
\* further sample, and once join() has returned nothing is put on the
\* queue any more.
C27_AtMostOneAfterStop ==
    [][/\ stop_event' => Len(pushed') <= pushedAtStop' + 1
       /\ (stop_event /\ driverPc = "done") =>
             /\ pushed' = pushed
             /\ queue' = queue]_vars

\* join() has returned after the reader put one sample that it read while
\* stop() was called
C27_Witness ==
    /\ stop_event
    /\ driverPc = "done"
    /\ readerPc = "done"
    /\ Len(pushed) = pushedAtStop + 1

\* The driver is about to call get() in one of its drain loops
AtGet == driverPc \in {"cal_get", "drain_get"}

LastLine(s) ==
    LET ends == {i \in 1 .. Len(s) - 1 : s[i] = "\n"}
        start == IF ends = {} THEN 1
                 ELSE 1 + CHOOSE i \in ends : \A j \in ends : j <= i
    IN  SubSeq(s, start, Len(s))

====
